---------------------------- MODULE Spec2Model ----------------------------
(***************************************************************************)
(* Round lifecycle, hole rotation and leaderboard aggregation of the       *)
(* minigolf tournament application (src/tournament_app.py).                *)
(*                                                                         *)
(* The store is the Neo4j graph.  The identity graph (tournaments, teams,  *)
(* players, courses, holes and their associations) is static; the rounds'  *)
(* properties and their STARTING_HOLE / CURRENT_HOLE / PLAYED_HOLE         *)
(* relationships are the state.  Relationships are kept as bags, because   *)
(* the graph allows parallel relationships and CREATE adds one per row.    *)
(* Every handler is an operator from a store value to its result, written  *)
(* clause by clause from its Cypher queries; every query is one            *)
(* auto-commit transaction, so what a query wrote stays written when the   *)
(* handler fails afterwards.                                               *)
(***************************************************************************)
EXTENDS Integers, Sequences, FiniteSets, Bags, TLC

\* ------------------------------------------------------------------ bounds
\* Calls per behaviour of Spec.
MaxOps == 3
\* Submissions per behaviour of SpecPlay beyond which a play-through is cut.
MaxPlay == 19
\* Calls per behaviour of SpecDay.
MaxDay == 8
\* Calls per behaviour of SpecRace, and calls of one overlapping group.
MaxRace == 4
MaxFlight == 2

\* ------------------------------------------------------- the identity graph
\* Holes of a course.
HoleCount == 18
\* The hole number the rotation's CASE gives when the scored hole is the starting hole.
StartTarget == 18
\* The hole number whose successor the rotation's CASE sets to 1.
WrapHole == 17

Holes == 1..HoleCount

Tournaments == {"T1", "T2"}
Teams == {1, 2}
Players == {1, 2, 3}

\* (t:Tournament)-[:HAS_TEAM]->(team:Team)
HAS_TEAM == {<<"T1", 1>>, <<"T1", 2>>, <<"T2", 2>>}
\* (p:Player)-[:MEMBER_OF]->(team:Team)
MEMBER_OF == {<<1, 1>>, <<2, 1>>, <<3, 2>>}

\* One TeamRound per (Team, Tournament): (team)-[:PLAYED_ROUND]->(tr)-[:IN_TOURNAMENT]->(t)
TeamRounds ==
    {[kind |-> "TeamRound", team |-> x[2], tournament |-> x[1]] : x \in HAS_TEAM}

\* One PlayerRound per (Player, TeamRound): (p)-[:PLAYED_ROUND]->(pr)-[:PLAYED_ROUND]->(tr)
PlayerRounds ==
    {[kind |-> "PlayerRound", player |-> y[1][1], team |-> y[1][2], tournament |-> y[2][1]] :
        y \in {z \in MEMBER_OF \X HAS_TEAM : z[1][2] = z[2][2]}}

Rounds == TeamRounds \cup PlayerRounds

\* (pr)-[:PLAYED_ROUND]->(tr)
TeamRoundOf(pr) == [kind |-> "TeamRound", team |-> pr.team, tournament |-> pr.tournament]

\* (round)-[:PLAYED_ON]->(c:Course); every course -[:HAS_HOLE]-> holes 1..HoleCount
CourseOf(r) == IF r.tournament = "T1" THEN "Black Course" ELSE "Red Course"

\* ------------------------------------------------------------------ helpers
Max(a, b) == IF a >= b THEN a ELSE b

RECURSIVE GCD(_, _)
GCD(a, b) == IF b = 0 THEN a ELSE GCD(b, a % b)

\* The float n * 1.0 / d as the fraction in lowest terms, <<numerator, denominator>>.
Frac(n, d) == LET g == GCD(n, d) IN <<n \div g, d \div g>>
Zero == <<0, 1>>
FracLess(a, b) == a[1] * b[2] < b[1] * a[2]

\* Bags of relationships.
NoEdges == SetToBag({})
One(e) == SetToBag({e})
Times(b, k) == [e \in DOMAIN b |-> b[e] * k]
\* The relationships of bag b whose end is in S.
Only(b, S) == [e \in DOMAIN b \cap S |-> b[e]]

RECURSIVE SumOver(_, _)
SumOver(S, f) ==
    IF S = {} THEN 0
    ELSE LET x == CHOOSE y \in S : TRUE IN f[x] + SumOver(S \ {x}, f)

\* reduce(sum = 0, score IN collect(ph.score) | sum + score) over PLAYED_HOLE edges
ScoreSum(b) == SumOver(DOMAIN b, [e \in DOMAIN b |-> e[2] * b[e]])

\* ----------------------------------------------------------- the store
VARIABLES
    status,     \* round -> its status property
    total,      \* round -> its total property
    average,    \* round -> its average property, a fraction
    rank,       \* round -> its rank property
    active,     \* round -> its active property
    completed,  \* round -> its completed property (an unset one reads as false)
    starting,   \* round -> bag of hole numbers: its STARTING_HOLE relationships
    current,    \* round -> bag of hole numbers: its CURRENT_HOLE relationships
    played,     \* player round -> bag of <<hole, score>>: its PLAYED_HOLE relationships
    last,       \* the last call: handler, request, whether it returned 200
    before,     \* the store the last call started from
    ops,        \* calls made so far (Spec)
    play,       \* the play-through being followed (SpecPlay)
    flight      \* the calls in progress and their group (SpecRace)

vars == <<status, total, average, rank, active, completed, starting, current, played,
          last, before, ops, play, flight>>

db == [status |-> status, total |-> total, average |-> average, rank |-> rank,
       active |-> active, completed |-> completed, starting |-> starting,
       current |-> current, played |-> played]

Commit(d) ==
    /\ status' = d.status
    /\ total' = d.total
    /\ average' = d.average
    /\ rank' = d.rank
    /\ active' = d.active
    /\ completed' = d.completed
    /\ starting' = d.starting
    /\ current' = d.current
    /\ played' = d.played

\* ------------------------------------------------------- Rotation Engine
\* CASE WHEN h.number = sh.number THEN 18 WHEN h.number = 17 THEN 1 ELSE h.number + 1 END
next_hole_number(h, sh) ==
    IF h = sh THEN StartTarget
    ELSE IF h = WrapHole THEN 1
    ELSE h + 1

\* ------------------------------------------------------------ record_score
\* record_score_rows without WHERE pr.status = 'active'.
record_score_rows_any_status(d, player_number, tournament_name, course_name, hole_number) ==
    {pr \in PlayerRounds :
        /\ pr.player = player_number
        /\ pr.tournament = tournament_name
        /\ CourseOf(pr) = course_name
        /\ hole_number \in Holes}

\* The PlayerRound rows of the first two MATCH clauses.
record_score_rows(d, player_number, tournament_name, course_name, hole_number) ==
    {pr \in PlayerRounds :
        /\ pr.player = player_number
        /\ pr.tournament = tournament_name
        /\ CourseOf(pr) = course_name
        /\ hole_number \in Holes
        /\ d.status[pr] = "active"}

\* merge_played_hole with CREATE in the place of MERGE.
create_played_hole(b, hole_number, score) == b (+) One(<<hole_number, score>>)

\* MERGE (pr)-[prh:PLAYED_HOLE]->(h) SET prh.score = $score
merge_played_hole(b, hole_number, score) ==
    LET old == Only(b, {e \in DOMAIN b : e[1] = hole_number})
        rest == Only(b, {e \in DOMAIN b : e[1] # hole_number})
    IN  rest (+) Times(One(<<hole_number, score>>), Max(1, BagCardinality(old)))

record_score(d, player_number, tournament_name, course_name, hole_number, score) ==
    LET rows == record_score_rows(d, player_number, tournament_name, course_name,
                                  hole_number)
    IN  IF rows = {} THEN [db |-> d, ok |-> FALSE, next_hole |-> 0]
        ELSE
        LET pr == CHOOSE x \in rows : TRUE
            prh == Max(1, BagCardinality(
                      Only(d.played[pr], {e \in DOMAIN d.played[pr] : e[1] = hole_number})))
            written == [d EXCEPT !.played[pr] = merge_played_hole(@, hole_number, score)]
            \* MATCH (pr)-[:STARTING_HOLE]->(sh)  MATCH (c)-[:HAS_HOLE]->(nh) WHERE ...
            sh == Only(d.starting[pr], {x \in Holes : next_hole_number(hole_number, x) \in Holes})
            nh == Times(BagOfAll(LAMBDA x : next_hole_number(hole_number, x), sh), prh)
            \* OPTIONAL MATCH (pr)-[ch:CURRENT_HOLE]->(h), h no longer bound
            ch == Max(1, BagCardinality(d.current[pr]))
        IN  IF nh = NoEdges
            THEN \* no row is returned: data()[0] raises, the MERGE is committed
                 [db |-> written, ok |-> FALSE, next_hole |-> 0]
            ELSE \* DELETE ch; nh is never null here; CREATE (pr)-[:CURRENT_HOLE]->(nh)
                 [db |-> [written EXCEPT !.current[pr] = Times(nh, ch)],
                  ok |-> TRUE,
                  next_hole |-> CHOOSE x \in DOMAIN nh : TRUE]

\* activate_team_round without DELETE trh.
activate_team_round_keeping(d, tournament_name, team_number, course_name, hole_number) ==
    LET rows == {tr \in TeamRounds :
                    /\ <<tournament_name, team_number>> \in HAS_TEAM
                    /\ tr.team = team_number
                    /\ tr.tournament = tournament_name
                    /\ CourseOf(tr) = course_name
                    /\ hole_number \in Holes}
        set(f, v) == [r \in Rounds |-> IF r \in rows THEN v ELSE f[r]]
        add(f) == [r \in Rounds |-> IF r \in rows THEN f[r] (+) One(hole_number) ELSE f[r]]
    IN  IF rows = {} THEN [db |-> d, ok |-> FALSE]
        ELSE [db |-> [d EXCEPT !.active = set(@, TRUE),
                               !.total = set(@, 0),
                               !.average = set(@, Zero),
                               !.rank = set(@, 0),
                               !.status = set(@, "active"),
                               !.completed = set(@, FALSE),
                               !.starting = add(@),
                               !.current = add(@)],
              ok |-> TRUE]

\* activate_team_round without the {name: $course_name} of its Course pattern.
activate_team_round_any_course(d, tournament_name, team_number, course_name, hole_number) ==
    LET rows == {tr \in TeamRounds :
                    /\ <<tournament_name, team_number>> \in HAS_TEAM
                    /\ tr.team = team_number
                    /\ tr.tournament = tournament_name
                    /\ hole_number \in Holes}
        set(f, v) == [r \in Rounds |-> IF r \in rows THEN v ELSE f[r]]
    IN  IF rows = {} THEN [db |-> d, ok |-> FALSE]
        ELSE [db |-> [d EXCEPT !.active = set(@, TRUE),
                               !.total = set(@, 0),
                               !.average = set(@, Zero),
                               !.rank = set(@, 0),
                               !.status = set(@, "active"),
                               !.completed = set(@, FALSE),
                               !.starting = set(@, One(hole_number)),
                               !.current = set(@, One(hole_number))],
              ok |-> TRUE]

\* ------------------------------------------------- activate_team_round
activate_team_round(d, tournament_name, team_number, course_name, hole_number) ==
    LET rows == {tr \in TeamRounds :
                    /\ <<tournament_name, team_number>> \in HAS_TEAM
                    /\ tr.team = team_number
                    /\ tr.tournament = tournament_name
                    /\ CourseOf(tr) = course_name
                    /\ hole_number \in Holes}
        set(f, v) == [r \in Rounds |-> IF r \in rows THEN v ELSE f[r]]
    IN  IF rows = {} THEN [db |-> d, ok |-> FALSE]
        ELSE [db |-> [d EXCEPT !.active = set(@, TRUE),
                               !.total = set(@, 0),
                               !.average = set(@, Zero),
                               !.rank = set(@, 0),
                               !.status = set(@, "active"),
                               !.completed = set(@, FALSE),
                               \* DELETE trh; CREATE STARTING_HOLE, CURRENT_HOLE
                               !.starting = set(@, One(hole_number)),
                               !.current = set(@, One(hole_number))],
              ok |-> TRUE]

\* activate_player_round with PLAYED_HOLE among the relationship types it deletes.
activate_player_round_clearing(d, tournament_name, team_number, player_number, course_name, hole_number) ==
    LET rows == {pr \in PlayerRounds :
                    /\ <<tournament_name, team_number>> \in HAS_TEAM
                    /\ <<player_number, team_number>> \in MEMBER_OF
                    /\ pr.player = player_number
                    /\ pr.team = team_number
                    /\ pr.tournament = tournament_name
                    /\ CourseOf(TeamRoundOf(pr)) = course_name
                    /\ hole_number \in Holes}
        set(f, v) == [r \in DOMAIN f |-> IF r \in rows THEN v ELSE f[r]]
    IN  IF rows = {} THEN [db |-> d, ok |-> FALSE]
        ELSE [db |-> [d EXCEPT !.active = set(@, TRUE),
                               !.total = set(@, 0),
                               !.average = set(@, Zero),
                               !.rank = set(@, 0),
                               !.status = set(@, "active"),
                               !.completed = set(@, FALSE),
                               !.played = set(@, NoEdges),
                               !.starting = set(@, One(hole_number)),
                               !.current = set(@, One(hole_number))],
              ok |-> TRUE]

\* ----------------------------------------------- activate_player_round
activate_player_round(d, tournament_name, team_number, player_number, course_name, hole_number) ==
    LET rows == {pr \in PlayerRounds :
                    /\ <<tournament_name, team_number>> \in HAS_TEAM
                    /\ <<player_number, team_number>> \in MEMBER_OF
                    /\ pr.player = player_number
                    /\ pr.team = team_number
                    /\ pr.tournament = tournament_name
                    /\ CourseOf(TeamRoundOf(pr)) = course_name
                    /\ hole_number \in Holes}
        set(f, v) == [r \in Rounds |-> IF r \in rows THEN v ELSE f[r]]
    IN  IF rows = {} THEN [db |-> d, ok |-> FALSE]
        ELSE [db |-> [d EXCEPT !.active = set(@, TRUE),
                               !.total = set(@, 0),
                               !.average = set(@, Zero),
                               !.rank = set(@, 0),
                               !.status = set(@, "active"),
                               !.completed = set(@, FALSE),
                               \* DELETE prh; CREATE STARTING_HOLE, CURRENT_HOLE
                               !.starting = set(@, One(hole_number)),
                               !.current = set(@, One(hole_number))],
              ok |-> TRUE]

\* --------------------------------------------------- record_team_scores
\* for player_score in request.player_scores: await record_score(score_request)
RECURSIVE record_each(_, _, _, _, _)
record_each(d, tournament_name, course_name, hole_number, player_scores) ==
    IF player_scores = <<>> THEN [db |-> d, ok |-> TRUE]
    ELSE LET r == record_score(d, Head(player_scores)[1], tournament_name, course_name,
                               hole_number, Head(player_scores)[2])
         IN  IF ~r.ok THEN [db |-> r.db, ok |-> FALSE]
             ELSE record_each(r.db, tournament_name, course_name, hole_number,
                              Tail(player_scores))

\* update_team_hole_rows without WHERE tr.status = 'active'.
update_team_hole_rows_any_status(d, tournament_name, course_name, hole_number, team_number) ==
    {tr \in TeamRounds :
        /\ tr.team = team_number
        /\ tr.tournament = tournament_name
        /\ CourseOf(tr) = course_name
        /\ hole_number \in Holes
        /\ d.starting[tr] # NoEdges}

\* The TeamRound rows of update_team_hole_query that have a starting hole.
update_team_hole_rows(d, tournament_name, course_name, hole_number, team_number) ==
    {tr \in TeamRounds :
        /\ tr.team = team_number
        /\ tr.tournament = tournament_name
        /\ CourseOf(tr) = course_name
        /\ hole_number \in Holes
        /\ d.status[tr] = "active"
        \* MATCH (tr)-[:STARTING_HOLE]->(sh:Hole)
        /\ d.starting[tr] # NoEdges}

\* update_team_hole_query
update_team_hole(d, tournament_name, course_name, hole_number, team_number) ==
    LET rows == update_team_hole_rows(d, tournament_name, course_name, hole_number,
                                      team_number)
    IN  IF rows = {} THEN [db |-> d, ok |-> FALSE]
        ELSE
        LET tr == CHOOSE x \in rows : TRUE
            \* OPTIONAL MATCH (c)-[:HAS_HOLE]->(nh:Hole) WHERE nh.number = CASE ...
            found == Only(d.starting[tr],
                          {x \in Holes : next_hole_number(hole_number, x) \in Holes})
            null == Only(d.starting[tr],
                         {x \in Holes : next_hole_number(hole_number, x) \notin Holes})
            nh == BagOfAll(LAMBDA x : next_hole_number(hole_number, x), found)
            \* OPTIONAL MATCH (tr)-[ch:CURRENT_HOLE]->(h), h the submitted hole
            ch == Max(1, CopiesIn(hole_number, d.current[tr]))
            kept == Only(d.current[tr], Holes \ {hole_number})
        IN  [db |-> [d EXCEPT
                        \* FOREACH (... nh is null ... | SET tr.status = 'complete')
                        !.status[tr] = IF null # NoEdges THEN "complete" ELSE @,
                        \* DELETE ch; FOREACH (... | CREATE (tr)-[:CURRENT_HOLE]->(nh))
                        !.current[tr] = kept (+) Times(nh, ch)],
             ok |-> TRUE]

record_team_scores(d, tournament_name, course_name, hole_number, team_number, player_scores) ==
    LET each == record_each(d, tournament_name, course_name, hole_number, player_scores)
    IN  IF ~each.ok THEN each
        ELSE update_team_hole(each.db, tournament_name, course_name, hole_number,
                              team_number)

\* start_tournament deleting, of the relationships of a player round, only
\* those of one type in a call: STARTING_HOLE, else CURRENT_HOLE, else PLAYED_HOLE.
start_tournament_one_type(d, tournament_name) ==
    LET prs == {pr \in PlayerRounds : pr.tournament = tournament_name}
        trs == {TeamRoundOf(pr) : pr \in prs}
        both == prs \cup trs
        first == {pr \in prs : d.starting[pr] # NoEdges}
        second == {pr \in prs \ first : d.current[pr] # NoEdges}
        set(f, S, v) == [r \in DOMAIN f |-> IF r \in S THEN v ELSE f[r]]
    IN  IF both = {} THEN [db |-> d, ok |-> FALSE]
        ELSE [db |-> [d EXCEPT
                        !.played = set(@, prs \ (first \cup second), NoEdges),
                        !.starting = set(@, first, NoEdges),
                        !.current = set(@, second, NoEdges),
                        !.status = set(@, both, "ready"),
                        !.total = set(@, both, 0),
                        !.average = set(@, both, Zero),
                        !.rank = set(@, both, 0)],
              ok |-> TRUE]

\* ----------------------------------------------------- start_tournament
start_tournament(d, tournament_name) ==
    LET prs == {pr \in PlayerRounds : pr.tournament = tournament_name}
        trs == {TeamRoundOf(pr) : pr \in prs}
        both == prs \cup trs
        set(f, S, v) == [r \in DOMAIN f |-> IF r \in S THEN v ELSE f[r]]
    IN  IF both = {} THEN [db |-> d, ok |-> FALSE]
        ELSE [db |-> [d EXCEPT
                        \* DELETE ph: bound by the first OPTIONAL MATCH to the player
                        \* round's relationships; the second OPTIONAL MATCH reuses the
                        \* bound ph, so no relationship of tr is ever matched
                        !.played = set(@, prs, NoEdges),
                        !.starting = set(@, prs, NoEdges),
                        !.current = set(@, prs, NoEdges),
                        !.status = set(@, both, "ready"),
                        !.total = set(@, both, 0),
                        !.average = set(@, both, Zero),
                        !.rank = set(@, both, 0)],
              ok |-> TRUE]

\* ---------------------------------------------------- update_leaderboard
Live == {"active", "complete"}

\* ORDER BY key ASC, then rank = position: every order of the ties is possible.
\* less is the set of the pairs <<a, b>> with the key of a below the key of b.
\* The last position goes to any element with no greater key, the positions
\* before it to a ranking of the others.
RECURSIVE Rankings(_, _)
Rankings(S, less) ==
    IF S = {} THEN {[x \in {} |-> 0]}
    ELSE UNION {{[x \in S |-> IF x = m THEN Cardinality(S) ELSE f[x]] :
                    f \in Rankings(S \ {m}, less)} :
                m \in {a \in S : \A b \in S : <<a, b>> \notin less}}

\* player_update with the average taken over the holes of the course.
player_update_per_course(d) ==
    LET upd == {pr \in PlayerRounds : d.status[pr] \in Live /\ d.played[pr] # NoEdges}
    IN  [d EXCEPT
            !.total = [r \in Rounds |->
                IF r \in upd THEN ScoreSum(d.played[r]) ELSE @[r]],
            !.average = [r \in Rounds |->
                IF r \in upd THEN Frac(ScoreSum(d.played[r]), HoleCount) ELSE @[r]]]

\* player_update_query
player_update(d) ==
    LET upd == {pr \in PlayerRounds : d.status[pr] \in Live /\ d.played[pr] # NoEdges}
    IN  [d EXCEPT
            !.total = [r \in Rounds |->
                IF r \in upd THEN ScoreSum(d.played[r]) ELSE @[r]],
            !.average = [r \in Rounds |->
                IF r \in upd
                THEN Frac(ScoreSum(d.played[r]), BagCardinality(d.played[r]))
                ELSE @[r]]]

\* player_rank without WHERE pr.status IN ['active','complete'].
player_rank_all(d) ==
    LET S == PlayerRounds
    IN  {[d EXCEPT !.rank = [r \in Rounds |-> IF r \in S THEN f[r] ELSE @[r]]] :
            f \in Rankings(S, {x \in S \X S : d.total[x[1]] < d.total[x[2]]})}

\* player_rank_query: every PlayerRound of the graph, whatever its tournament
player_rank(d) ==
    LET S == {pr \in PlayerRounds : d.status[pr] \in Live}
    IN  {[d EXCEPT !.rank = [r \in Rounds |-> IF r \in S THEN f[r] ELSE @[r]]] :
            f \in Rankings(S, {x \in S \X S : d.total[x[1]] < d.total[x[2]]})}

\* team_update_query
team_update(d) ==
    LET from(tr) == {pr \in PlayerRounds :
                        TeamRoundOf(pr) = tr /\ d.status[pr] \in Live}
        upd == {tr \in TeamRounds : d.status[tr] \in Live /\ from(tr) # {}}
        sum(tr) == SumOver(from(tr), d.total)
    IN  [d EXCEPT
            !.total = [r \in Rounds |-> IF r \in upd THEN sum(r) ELSE @[r]],
            !.average = [r \in Rounds |->
                IF r \in upd THEN Frac(sum(r), Cardinality(from(r))) ELSE @[r]]]

\* team_rank_query: ORDER BY tr.average
team_rank(d) ==
    LET S == {tr \in TeamRounds : d.status[tr] \in Live}
    IN  {[d EXCEPT !.rank = [r \in Rounds |-> IF r \in S THEN f[r] ELSE @[r]]] :
            f \in Rankings(S, {x \in S \X S : FracLess(d.average[x[1]], d.average[x[2]])})}

\* The stores update_leaderboard can leave.
update_leaderboard(d) ==
    UNION {team_rank(team_update(d1)) : d1 \in player_rank(player_update(d))}

\* ------------------------------------------------------- end_tournament
\* end_tournament_query without its second part, SET pr.status = 'done'.
end_tournament_query_teams(d, tournament_name) ==
    [d EXCEPT !.status = [r \in Rounds |->
        IF r.tournament = tournament_name /\ r \in TeamRounds THEN "done" ELSE @[r]]]

\* end_tournament_query
end_tournament_query(d, tournament_name) ==
    [d EXCEPT !.status = [r \in Rounds |->
        IF r.tournament = tournament_name THEN "done" ELSE @[r]]]

\* temp_activate_query
temp_activate(d, tournament_name) ==
    [d EXCEPT !.active = [r \in Rounds |->
        IF r.tournament = tournament_name THEN TRUE ELSE @[r]]]

\* The results end_tournament can give.
end_tournament(d, tournament_name) ==
    IF {r \in Rounds : r.tournament = tournament_name} = {}
    THEN {[db |-> d, ok |-> FALSE]}
    ELSE {[db |-> end_tournament_query(d3, tournament_name), ok |-> TRUE] :
            d3 \in update_leaderboard(
                     temp_activate(end_tournament_query(d, tournament_name),
                                   tournament_name))}

\* end_player_round that also sets pr.status = 'done'.
end_player_round_done(d, player_number, tournament_name) ==
    LET rows == {pr \in PlayerRounds :
                    /\ pr.player = player_number
                    /\ d.active[pr]
                    /\ pr.tournament = tournament_name}
    IN  IF rows = {} THEN [db |-> d, ok |-> FALSE]
        ELSE
        LET pr == CHOOSE x \in rows : TRUE
            scores == d.played[pr]
        IN  [db |-> [d EXCEPT
                        !.active[pr] = FALSE,
                        !.completed[pr] = TRUE,
                        !.status[pr] = "done",
                        !.total[pr] = IF scores # NoEdges THEN ScoreSum(scores) ELSE 0,
                        !.average[pr] =
                            IF scores # NoEdges
                            THEN Frac(ScoreSum(scores), BagCardinality(scores))
                            ELSE Zero],
             ok |-> TRUE]

\* ----------------------------------------------------- end_player_round
end_player_round(d, player_number, tournament_name) ==
    LET rows == {pr \in PlayerRounds :
                    /\ pr.player = player_number
                    /\ d.active[pr]
                    /\ pr.tournament = tournament_name}
    IN  IF rows = {} THEN [db |-> d, ok |-> FALSE]
        ELSE
        LET pr == CHOOSE x \in rows : TRUE
            scores == d.played[pr]
        IN  [db |-> [d EXCEPT
                        !.active[pr] = FALSE,
                        !.completed[pr] = TRUE,
                        !.total[pr] = IF scores # NoEdges THEN ScoreSum(scores) ELSE 0,
                        !.average[pr] =
                            IF scores # NoEdges
                            THEN Frac(ScoreSum(scores), BagCardinality(scores))
                            ELSE Zero],
             ok |-> TRUE]

\* ------------------------------------------------------- end_team_round
end_team_round(d, team_number, tournament_name) ==
    LET rows == {tr \in TeamRounds :
                    /\ tr.team = team_number
                    /\ d.active[tr]
                    /\ tr.tournament = tournament_name}
    IN  IF rows = {} THEN [db |-> d, ok |-> FALSE]
        ELSE
        LET tr == CHOOSE x \in rows : TRUE
            \* OPTIONAL MATCH (p)-[:PLAYED_ROUND]->(pr); the OPTIONAL MATCH
            \* (pr)-[:PLAYED_ROUND]->(tr) that follows drops no row
            prs == {pr \in PlayerRounds : <<pr.player, team_number>> \in MEMBER_OF}
            player_totals == [pr \in prs |-> ScoreSum(d.played[pr])]
            sum == SumOver(prs, player_totals)
            size == Max(1, Cardinality(prs))
        IN  [db |-> [d EXCEPT
                        !.active[tr] = FALSE,
                        !.completed[tr] = TRUE,
                        !.total[tr] = sum,
                        !.average[tr] = IF sum > 0 THEN Frac(sum, size) ELSE Zero],
             ok |-> TRUE]

\* ------------------------------------------------ get_player_leaderboard
\* The rows an OPTIONAL MATCH to a hole gives: the relationships, or one null (0).
optional_holes(b) == IF b = NoEdges THEN One(0) ELSE b

\* get_player_leaderboard with count(*) in the place of count(h).
get_player_leaderboard_count_rows(d, tournament_name) ==
    LET teams(pr) == {tm \in Teams : /\ <<tournament_name, tm>> \in HAS_TEAM
                                     /\ <<pr.player, tm>> \in MEMBER_OF}
        prs == {pr \in PlayerRounds : /\ teams(pr) # {}
                                      /\ d.status[pr] \in Live
                                      /\ pr.tournament = tournament_name
                                      /\ d.status[TeamRoundOf(pr)] \in Live}
    IN  UNION {{[player_number |-> pr.player,
                 total |-> d.total[pr],
                 average |-> d.average[pr],
                 rank |-> d.rank[pr],
                 holes_played |-> Max(1, BagCardinality(d.played[pr])) * Cardinality(teams(pr))
                                    * CopiesIn(ch, optional_holes(d.current[pr]))
                                    * CopiesIn(sh, optional_holes(d.starting[pr])),
                 current_hole |-> ch,
                 starting_hole |-> sh,
                 completed |-> d.completed[pr]] :
                    ch \in DOMAIN optional_holes(d.current[pr]),
                    sh \in DOMAIN optional_holes(d.starting[pr])} : pr \in prs}

\* The rows of the query, one per (p, pr, ch, sh) of WITH ... count(h); every
\* tournament has active: true, as TournamentCreate leaves it.
get_player_leaderboard(d, tournament_name) ==
    LET teams(pr) == {tm \in Teams : /\ <<tournament_name, tm>> \in HAS_TEAM
                                     /\ <<pr.player, tm>> \in MEMBER_OF}
        prs == {pr \in PlayerRounds : /\ teams(pr) # {}
                                      /\ d.status[pr] \in Live
                                      /\ pr.tournament = tournament_name
                                      /\ d.status[TeamRoundOf(pr)] \in Live}
    IN  UNION {{[player_number |-> pr.player,
                 total |-> d.total[pr],
                 average |-> d.average[pr],
                 rank |-> d.rank[pr],
                 holes_played |-> BagCardinality(d.played[pr]) * Cardinality(teams(pr))
                                    * CopiesIn(ch, optional_holes(d.current[pr]))
                                    * CopiesIn(sh, optional_holes(d.starting[pr])),
                 current_hole |-> ch,
                 starting_hole |-> sh,
                 completed |-> d.completed[pr]] :
                    ch \in DOMAIN optional_holes(d.current[pr]),
                    sh \in DOMAIN optional_holes(d.starting[pr])} : pr \in prs}

\* ------------------------------------------------------------ the client
\* holes_from without the wrap from the last hole to hole 1.
RECURSIVE holes_from_unwrapped(_, _)
holes_from_unwrapped(cur, n) ==
    IF n = 0 THEN <<>>
    ELSE <<cur>> \o holes_from_unwrapped(cur + 1, n - 1)

\* holes_to_play of TeamSimulator.play_round: HoleCount holes from starting_hole on
RECURSIVE holes_from(_, _)
holes_from(cur, n) ==
    IF n = 0 THEN <<>>
    ELSE <<cur>> \o holes_from(IF cur + 1 > HoleCount THEN 1 ELSE cur + 1, n - 1)

holes_to_play(starting_hole) == holes_from(starting_hole, HoleCount)

\* TeamSimulator.get_next_hole
get_next_hole(current_hole) ==
    LET next_hole == current_hole + 1
    IN  IF next_hole > HoleCount THEN 1 ELSE next_hole

\* ----------------------------------------------------------------- inputs
\* Hole numbers the calls of Spec carry: an ordinary hole and the two holes the
\* rotation's CASE names.
HoleInputs == {1, WrapHole, HoleCount}
Scores == {3, 4}
\* Identifiers that resolve to nothing or to another round's path.
NoHole == HoleCount + 1
OneScore == CHOOSE s \in Scores : TRUE

\* player_scores lists of a record-team-scores request for a team
PlayerScoreLists(team_number) ==
    LET ps == {p \in Players : <<p, team_number>> \in MEMBER_OF}
        lo == CHOOSE p \in ps : \A q \in ps : p <= q
        hi == CHOOSE p \in ps : \A q \in ps : p >= q
    IN  {<<>>, <<<<lo, OneScore>>>>}
        \cup {IF lo = hi THEN <<<<lo, s>>>> ELSE <<<<lo, s>>, <<hi, s>>>> : s \in Scores}

\* Requests: every request whose identifiers resolve, and some that do not.
RecordScoreRequests ==
    {<<pr.player, pr.tournament, CourseOf(pr), h, s>> :
        pr \in PlayerRounds, h \in HoleInputs, s \in Scores}
    \cup {<<1, "T2", "Red Course", 1, OneScore>>,
          <<1, "T1", "Red Course", 1, OneScore>>,
          <<1, "T1", "Black Course", NoHole, OneScore>>}

RecordTeamScoresRequests ==
    UNION {{<<tr.tournament, CourseOf(tr), h, tr.team, l>> :
                h \in HoleInputs, l \in PlayerScoreLists(tr.team)} : tr \in TeamRounds}
    \cup {<<"T2", "Red Course", 1, 1, <<>>>>,
          <<"T1", "Black Course", 1, 1, <<<<3, OneScore>>>>>>}

ActivateTeamRoundRequests ==
    {<<tr.tournament, tr.team, CourseOf(tr), h>> : tr \in TeamRounds, h \in HoleInputs}
    \cup {<<"T2", 1, "Red Course", 1>>,
          <<"T1", 1, "Red Course", 1>>,
          <<"T1", 1, "Black Course", NoHole>>}

ActivatePlayerRoundRequests ==
    {<<pr.tournament, pr.team, pr.player, CourseOf(pr), h>> :
        pr \in PlayerRounds, h \in HoleInputs}
    \cup {<<"T1", 2, 1, "Black Course", 1>>,
          <<"T1", 1, 1, "Red Course", 1>>,
          <<"T1", 1, 1, "Black Course", NoHole>>}

\* -------------------------------------------------------------------- Init
Idle == [kind |-> "idle", mode |-> "idle", start |-> 0, score |-> 0,
         holes |-> <<>>, oks |-> <<>>, stats |-> <<>>]

\* The rounds as the administration layer created them and start-tournament reset them.
Init ==
    /\ status = [r \in Rounds |-> "ready"]
    /\ total = [r \in Rounds |-> 0]
    /\ average = [r \in Rounds |-> Zero]
    /\ rank = [r \in Rounds |-> 0]
    /\ active = [r \in Rounds |-> TRUE]
    /\ completed = [r \in Rounds |-> FALSE]
    /\ starting = [r \in Rounds |-> NoEdges]
    /\ current = [r \in Rounds |-> NoEdges]
    /\ played = [r \in PlayerRounds |-> NoEdges]
    /\ last = [op |-> "none", req |-> <<>>, ok |-> TRUE]
    /\ before = db
    /\ ops = 0
    /\ play = Idle
    /\ flight = [base |-> db, batch |-> <<>>, open |-> {}, scan |-> <<>>,
                 sets |-> {}, used |-> NoEdges, mixed |-> FALSE]

\* One call of a handler: its writes, and the record of the call.  The request
\* of a call that failed and wrote nothing is not kept.
Call(op, req, r) ==
    \E res \in {r} :
        /\ Commit(res.db)
        /\ last' = [op |-> op, ok |-> res.ok,
                    req |-> IF res.ok \/ res.db # db THEN req ELSE <<>>]
        /\ before' = db
        /\ UNCHANGED flight

Counted ==
    /\ ops < MaxOps
    /\ ops' = ops + 1
    /\ UNCHANGED play

\* ------------------------------------------------------------ calls of Spec
RecordScore ==
    \E q \in RecordScoreRequests :
        /\ Counted
        /\ Call("record_score", q, record_score(db, q[1], q[2], q[3], q[4], q[5]))

RecordTeamScores ==
    \E q \in RecordTeamScoresRequests :
        /\ Counted
        /\ Call("record_team_scores", q,
                record_team_scores(db, q[1], q[2], q[3], q[4], q[5]))

ActivateTeamRound ==
    \E q \in ActivateTeamRoundRequests :
        /\ Counted
        /\ Call("activate_team_round", q,
                activate_team_round(db, q[1], q[2], q[3], q[4]))

ActivatePlayerRound ==
    \E q \in ActivatePlayerRoundRequests :
        /\ Counted
        /\ Call("activate_player_round", q,
                activate_player_round(db, q[1], q[2], q[3], q[4], q[5]))

StartTournament ==
    \E t \in Tournaments :
        /\ Counted
        /\ Call("start_tournament", <<t>>, start_tournament(db, t))

EndTournament ==
    \E t \in Tournaments :
        \E r \in end_tournament(db, t) :
            /\ Counted
            /\ Call("end_tournament", <<t>>, r)

UpdateLeaderboard ==
    \E d \in update_leaderboard(db) :
        /\ Counted
        /\ Call("update_leaderboard", <<>>, [db |-> d, ok |-> TRUE])

EndPlayerRound ==
    \E p \in Players, t \in Tournaments :
        /\ Counted
        /\ Call("end_player_round", <<p, t>>, end_player_round(db, p, t))

EndTeamRound ==
    \E tm \in Teams, t \in Tournaments :
        /\ Counted
        /\ Call("end_team_round", <<tm, t>>, end_team_round(db, tm, t))

Next ==
    \/ RecordScore
    \/ RecordTeamScores
    \/ ActivateTeamRound
    \/ ActivatePlayerRound
    \/ StartTournament
    \/ EndTournament
    \/ UpdateLeaderboard
    \/ EndPlayerRound
    \/ EndTeamRound

Spec == Init /\ [][Next]_vars

\* ------------------------------------------------------- calls of SpecPlay
\* One play-through of team 1 of tournament T1 on the Black Course: of the
\* round of player 1 through record-score (kind "player"), or of the team's
\* round through record-team-scores listing both players (kind "team").  The
\* client submits either the holes of its own list (mode "client", as
\* TeamSimulator.play_round) or the hole the round's CURRENT_HOLE points to
\* (mode "server").
PlayTournament == "T1"
PlayTeam == CHOOSE tm \in Teams : Cardinality({p \in Players : <<p, tm>> \in MEMBER_OF}) > 1
PlayMembers == {p \in Players : <<p, PlayTeam>> \in MEMBER_OF}
PlayPlayer == CHOOSE p \in PlayMembers : \A q \in PlayMembers : p <= q
PlayTR == [kind |-> "TeamRound", team |-> PlayTeam, tournament |-> PlayTournament]
PlayPR(p) == [kind |-> "PlayerRound", player |-> p, team |-> PlayTeam,
              tournament |-> PlayTournament]
PlayRound == IF play.kind = "team" THEN PlayTR ELSE PlayPR(PlayPlayer)

\* The play-through has ended: a submission failed, the round is complete, or
\* the client's list is exhausted.
PlayOver ==
    \/ /\ play.oks # <<>>
       /\ \/ ~play.oks[Len(play.oks)]
          \/ play.stats[Len(play.stats)] = "complete"
    \/ play.mode = "client" /\ Len(play.holes) = HoleCount
    \/ play.mode = "server" /\ current[PlayRound] = NoEdges

\* The hole the next submission is for.
PlayHole ==
    IF play.mode = "client" THEN holes_to_play(play.start)[Len(play.holes) + 1]
    ELSE CHOOSE h \in DOMAIN current[PlayRound] : TRUE

Played(op, req, r) ==
    /\ Call(op, req, r)
    /\ play' = [play EXCEPT !.holes = Append(@, PlayHole),
                            !.oks = Append(@, r.ok),
                            !.stats = Append(@, r.db.status[PlayRound])]
    /\ UNCHANGED ops

PlayActivateTeam ==
    \E m \in {"client", "server"}, h \in Holes, s \in Scores :
        /\ play = Idle
        /\ Call("activate_team_round", <<PlayTournament, PlayTeam, CourseOf(PlayTR), h>>,
                activate_team_round(db, PlayTournament, PlayTeam, CourseOf(PlayTR), h))
        /\ play' = [Idle EXCEPT !.kind = "team", !.mode = m, !.start = h, !.score = s]
        /\ UNCHANGED ops

PlayActivatePlayer ==
    \/ \E m \in {"client", "server"}, h \in Holes, s \in Scores :
        /\ play = Idle
        /\ Call("activate_player_round",
                <<PlayTournament, PlayTeam, PlayPlayer, CourseOf(PlayTR), h>>,
                activate_player_round(db, PlayTournament, PlayTeam, PlayPlayer,
                                      CourseOf(PlayTR), h))
        /\ play' = [Idle EXCEPT !.kind = "player", !.mode = m, !.start = h, !.score = s]
        /\ UNCHANGED ops
    \/ \E p \in PlayMembers :
        /\ play.kind = "team"
        /\ status[PlayPR(p)] = "ready"
        /\ Call("activate_player_round",
                <<PlayTournament, PlayTeam, p, CourseOf(PlayTR), play.start>>,
                activate_player_round(db, PlayTournament, PlayTeam, p,
                                      CourseOf(PlayTR), play.start))
        /\ UNCHANGED <<ops, play>>

PlayRecordScore ==
    /\ play.kind = "player"
    /\ ~PlayOver
    /\ Len(play.holes) < MaxPlay
    /\ Played("record_score",
              <<PlayPlayer, PlayTournament, CourseOf(PlayTR), PlayHole, play.score>>,
              record_score(db, PlayPlayer, PlayTournament, CourseOf(PlayTR), PlayHole,
                           play.score))

PlayRecordTeamScores ==
    /\ play.kind = "team"
    /\ \A p \in PlayMembers : status[PlayPR(p)] # "ready"
    /\ ~PlayOver
    /\ Len(play.holes) < MaxPlay
    /\ \E l \in PlayerScoreLists(PlayTeam) :
        /\ Len(l) = Cardinality(PlayMembers)
        /\ \A i \in 1..Len(l) : l[i][2] = play.score
        /\ Played("record_team_scores",
                  <<PlayTournament, CourseOf(PlayTR), PlayHole, PlayTeam, l>>,
                  record_team_scores(db, PlayTournament, CourseOf(PlayTR), PlayHole,
                                     PlayTeam, l))

NextPlay ==
    \/ PlayActivateTeam
    \/ PlayActivatePlayer
    \/ PlayRecordScore
    \/ PlayRecordTeamScores

SpecPlay == Init /\ [][NextPlay]_vars

\* -------------------------------------------------------- calls of SpecDay
\* A tournament day as the simulator's teams drive it: a team's round is
\* activated, then its players' rounds, then each player's score for the
\* team's starting hole is submitted and the team's round is ended, the teams
\* interleaved and not every player taking part; the leaderboard is refreshed
\* at any moment in between, until it has assigned ranks.
\* self.starting_hole = int(team_number / 2) + 1
starting_hole(team_number) == (team_number \div 2) + 1

DayCounted ==
    /\ ops < MaxDay
    /\ ops' = ops + 1
    /\ UNCHANGED play

DayActivateTeam ==
    \E tr \in TeamRounds :
        /\ status[tr] = "ready"
        /\ DayCounted
        /\ Call("activate_team_round",
                <<tr.tournament, tr.team, CourseOf(tr), starting_hole(tr.team)>>,
                activate_team_round(db, tr.tournament, tr.team, CourseOf(tr),
                                    starting_hole(tr.team)))

DayActivatePlayer ==
    \E pr \in PlayerRounds :
        /\ status[TeamRoundOf(pr)] = "active"
        /\ status[pr] = "ready"
        /\ DayCounted
        /\ Call("activate_player_round",
                <<pr.tournament, pr.team, pr.player, CourseOf(pr), starting_hole(pr.team)>>,
                activate_player_round(db, pr.tournament, pr.team, pr.player,
                                      CourseOf(pr), starting_hole(pr.team)))

DayRecordScore ==
    \E pr \in PlayerRounds, s \in Scores :
        /\ status[pr] = "active"
        /\ played[pr] = NoEdges
        /\ DayCounted
        /\ Call("record_score",
                <<pr.player, pr.tournament, CourseOf(pr), starting_hole(pr.team), s>>,
                record_score(db, pr.player, pr.tournament, CourseOf(pr),
                             starting_hole(pr.team), s))

DayEndTeamRound ==
    \E tr \in TeamRounds :
        /\ status[tr] = "active"
        /\ active[tr]
        /\ DayCounted
        /\ Call("end_team_round", <<tr.team, tr.tournament>>,
                end_team_round(db, tr.team, tr.tournament))

DayUpdateLeaderboard ==
    \E d \in update_leaderboard(db) :
        /\ \A r \in Rounds : rank[r] = 0
        /\ DayCounted
        /\ Call("update_leaderboard", <<>>, [db |-> d, ok |-> TRUE])

NextDay ==
    \/ DayActivateTeam
    \/ DayActivatePlayer
    \/ DayRecordScore
    \/ DayEndTeamRound
    \/ DayUpdateLeaderboard

SpecDay == Init /\ [][NextDay]_vars

\* ------------------------------------------------------- calls of SpecRace
\* Calls for one PlayerRound issued while others are in progress.  Every query
\* is its own transaction and the handlers take no lock and no snapshot: a
\* query's reads see what is committed when each of them runs, and its writes
\* are applied to the store as it is when they run.
RacePR == PlayPR(PlayPlayer)

\* record_score among other transactions.  The PlayerRound row and the
\* STARTING_HOLE relationship are read from seen.  When the MERGE matches a
\* relationship read from seen it writes that relationship only, and the
\* CURRENT_HOLE relationships are read either from seen as well or from d;
\* when it has to create the relationship, the rest of the query runs on d.
\* A CURRENT_HOLE relationship read from seen and deleted since is either
\* passed over by DELETE ch or ends the query with an error and nothing
\* written.
record_score_write(d, seen, player_number, tournament_name, course_name, hole_number, score) ==
    LET rows == record_score_rows(seen, player_number, tournament_name, course_name,
                                  hole_number)
    IN  IF rows = {} THEN {[db |-> d, ok |-> FALSE]}
        ELSE
        LET pr == CHOOSE x \in rows : TRUE
            matched == \E e \in DOMAIN seen.played[pr] : e[1] = hole_number
            read == record_score(seen, player_number, tournament_name, course_name,
                                 hole_number, score)
            late == record_score(d, player_number, tournament_name, course_name,
                                 hole_number, score)
            written == [d EXCEPT !.played[pr] = merge_played_hole(@, hole_number, score)]
            fresh == [written EXCEPT !.current[pr] = read.db.current[pr]]
            moved == [written EXCEPT !.current[pr] =
                        (@ (-) seen.current[pr]) (+) read.db.current[pr]]
        IN  IF ~matched THEN {[db |-> late.db, ok |-> late.ok]}
            ELSE IF ~read.ok THEN {[db |-> written, ok |-> FALSE]}
            ELSE IF seen.current[pr] \sqsubseteq d.current[pr]
                 THEN {[db |-> fresh, ok |-> TRUE], [db |-> moved, ok |-> TRUE]}
                 ELSE {[db |-> fresh, ok |-> TRUE], [db |-> moved, ok |-> TRUE],
                       [db |-> d, ok |-> FALSE]}

\* What player_update_query collects for a round: the relationships to the
\* holes up to split as they were in seen, the others as they are in d.
collected(d, seen, split, pr) ==
    Only(seen.played[pr], {e \in DOMAIN seen.played[pr] : e[1] <= split})
        (+) Only(d.played[pr], {e \in DOMAIN d.played[pr] : e[1] > split})

\* player_update_query among other transactions.
player_update_scanned(d, seen, split) ==
    LET upd == {pr \in PlayerRounds :
                    seen.status[pr] \in Live /\ collected(d, seen, split, pr) # NoEdges}
    IN  [d EXCEPT
            !.total = [r \in Rounds |->
                IF r \in upd THEN ScoreSum(collected(d, seen, split, r)) ELSE @[r]],
            !.average = [r \in Rounds |->
                IF r \in upd
                THEN Frac(ScoreSum(collected(d, seen, split, r)),
                          BagCardinality(collected(d, seen, split, r)))
                ELSE @[r]]]

\* update_leaderboard whose first query began on seen.
update_leaderboard_scanned(d, seen, split) ==
    UNION {team_rank(team_update(d1)) :
            d1 \in player_rank(player_update_scanned(d, seen, split))}

\* The group of overlapping calls a beginning call belongs to: a new one when
\* no activate or record-score call is in progress.
Joined(call) ==
    IF flight.open = {}
    THEN [flight EXCEPT !.base = db, !.batch = <<call>>, !.mixed = flight.scan # <<>>]
    ELSE [flight EXCEPT !.batch = Append(@, call)]

RaceBegin ==
    /\ ops < MaxRace
    /\ flight.open # {} => Len(flight.batch) < MaxFlight
    /\ ops' = ops + 1
    /\ UNCHANGED play

\* The score records of the round that existed while a refresh is in progress.
Observed(f, d) == IF f.scan = <<>> THEN f.sets ELSE f.sets \cup {d.played[RacePR]}

RaceActivate ==
    \E h \in HoleInputs :
        LET q == <<PlayTournament, PlayTeam, PlayPlayer, CourseOf(PlayTR), h>>
            r == activate_player_round(db, q[1], q[2], q[3], q[4], q[5])
        IN  /\ RaceBegin
            /\ Commit(r.db)
            /\ last' = [op |-> "activate_player_round", ok |-> r.ok, req |-> q]
            /\ before' = db
            /\ flight' = Joined([op |-> "activate_player_round", req |-> q])

RaceScoreRead ==
    \E h \in HoleInputs, s \in Scores :
        LET q == <<PlayPlayer, PlayTournament, CourseOf(PlayTR), h, s>>
            call == [op |-> "record_score", req |-> q]
        IN  /\ status[RacePR] = "active"
            /\ RaceBegin
            /\ flight' = [Joined(call) EXCEPT
                            !.open = @ \cup {[i |-> Len(Joined(call).batch), seen |-> db]}]
            /\ UNCHANGED <<status, total, average, rank, active, completed, starting,
                           current, played, last, before>>

RaceScoreWrite ==
    \E c \in flight.open :
        LET q == flight.batch[c.i].req
        IN  \E r \in record_score_write(db, c.seen, q[1], q[2], q[3], q[4], q[5]) :
                /\ Commit(r.db)
                /\ last' = [op |-> "record_score", ok |-> r.ok, req |-> q]
                /\ before' = db
                /\ flight' = [flight EXCEPT !.open = @ \ {c},
                                            !.sets = Observed(flight, r.db)]
                /\ UNCHANGED <<ops, play>>

RaceRefreshRead ==
    \E split \in HoleInputs :
        /\ flight.scan = <<>>
        /\ ops < MaxRace
        /\ ops' = ops + 1
        /\ flight' = [flight EXCEPT !.scan = <<[seen |-> db, split |-> split]>>,
                                    !.sets = {played[RacePR]},
                                    !.used = NoEdges]
        /\ UNCHANGED <<status, total, average, rank, active, completed, starting,
                       current, played, last, before, play>>

RaceRefreshWrite ==
    /\ flight.scan # <<>>
    /\ \E d \in update_leaderboard_scanned(db, flight.scan[1].seen, flight.scan[1].split) :
        /\ Commit(d)
        /\ last' = [op |-> "update_leaderboard", ok |-> TRUE, req |-> <<>>]
        /\ before' = db
        /\ flight' = [flight EXCEPT
                        !.scan = <<>>,
                        !.mixed = TRUE,
                        !.used = IF flight.scan[1].seen.status[RacePR] \in Live
                                 THEN collected(db, flight.scan[1].seen,
                                                flight.scan[1].split, RacePR)
                                 ELSE NoEdges]
        /\ UNCHANGED <<ops, play>>

NextRace ==
    \/ RaceActivate
    \/ RaceScoreRead
    \/ RaceScoreWrite
    \/ RaceRefreshRead
    \/ RaceRefreshWrite

SpecRace == Init /\ [][NextRace]_vars

\* ------------------------------------------------------------- properties
\* The round a request's player and tournament resolve to.
PlayerRoundOf(player_number, tournament_name) ==
    CHOOSE pr \in PlayerRounds :
        pr.player = player_number /\ pr.tournament = tournament_name

TeamRoundAt(team_number, tournament_name) ==
    [kind |-> "TeamRound", team |-> team_number, tournament |-> tournament_name]

Succeeded(op) == last.op = op /\ last.ok

\* C1: the hole sequence the server produces for a round activated at S (S, then
\* the holes CURRENT_HOLE points to after each scoring of the current hole, until
\* there is no next hole) has exactly 18 entries, is a permutation of 1..18 and
\* begins at S.
C1_RotationIsPermutation ==
    (play.mode = "server" /\ PlayOver) =>
        /\ Len(play.holes) = HoleCount
        /\ {play.holes[i] : i \in 1..Len(play.holes)} = Holes
        /\ play.holes[1] = play.start

\* C2: for a PlayerRound activated at S, the record-score calls for the holes
\* S, S+1, ..., 18, 1, ..., S-1 in this order all succeed, the status is active
\* after each of the first 17 and complete after the 18th.
C2_CompleteOnEighteenth ==
    (play.kind = "player" /\ play.mode = "client") =>
        \A i \in 1..Len(play.oks) :
            /\ play.oks[i]
            /\ play.stats[i] = IF i = HoleCount THEN "complete" ELSE "active"

\* C3: every TeamRound and PlayerRound has at most one starting_hole pointer and
\* at most one current_hole pointer, in every reachable state.
C3_AtMostOnePointer ==
    \A r \in Rounds :
        /\ BagCardinality(starting[r]) <= 1
        /\ BagCardinality(current[r]) <= 1

\* C4: after end-tournament(T), every round of T that was active or complete
\* before the call has the total and the average update-leaderboard computes
\* from the score records that existed immediately before the call.
C4_EndTournamentRefreshes ==
    Succeeded("end_tournament") =>
        \A r \in Rounds :
            (r.tournament = last.req[1] /\ before.status[r] \in Live) =>
                \E d \in update_leaderboard(before) :
                    total[r] = d.total[r] /\ average[r] = d.average[r]

\* C5: after a successful end-tournament(T), every TeamRound and PlayerRound of
\* T has status done, whatever its status was before the call.
C5_EndTournamentAllDone ==
    Succeeded("end_tournament") =>
        \A r \in Rounds : r.tournament = last.req[1] => status[r] = "done"

C5_Witness ==
    /\ Succeeded("end_tournament")
    /\ \E r \in Rounds : r.tournament = last.req[1] /\ before.status[r] = "complete"
    /\ \E r \in Rounds : r.tournament = last.req[1] /\ before.status[r] = "ready"

\* C6: after a successful record-score for (player, hole) there is exactly one
\* score record for that (PlayerRound, hole), holding the submitted score, also
\* when one existed before; and submitting the same (player, hole, score) a
\* second time leaves the same score records as submitting it once.
C6_UpsertOneRecord ==
    /\ Succeeded("record_score") =>
        LET pr == PlayerRoundOf(last.req[1], last.req[2])
        IN  Only(played[pr], {e \in DOMAIN played[pr] : e[1] = last.req[4]})
                = One(<<last.req[4], last.req[5]>>)
    /\ Succeeded("record_score") =>
        LET q == last.req
            twice == record_score(db, q[1], q[2], q[3], q[4], q[5])
        IN  twice.ok /\ twice.db.played = played

C6_Witness ==
    /\ Succeeded("record_score")
    /\ LET pr == PlayerRoundOf(last.req[1], last.req[2])
       IN  \E e \in DOMAIN before.played[pr] :
               e[1] = last.req[4] /\ e[2] # last.req[5]

\* C7, as claimed: no call other than start-tournament and end-tournament
\* changes a round's status except forward along ready -> active -> complete.
Forward == {<<"ready", "active">>, <<"active", "complete">>, <<"ready", "complete">>}

C8_DoneAndReadyOnlyTournamentWide ==
    \A r \in Rounds :
        /\ (status[r] = "done" /\ before.status[r] # "done") =>
                last.op = "end_tournament"
        /\ (status[r] = "ready" /\ before.status[r] # "ready") =>
                last.op = "start_tournament"

C8_Witness ==
    /\ Succeeded("start_tournament")
    /\ \E r \in Rounds : before.status[r] = "done" /\ status[r] = "ready"

\* C9: a score record is created, or its value changed, only by record-score
\* (alone or within record-team-scores) and only for a PlayerRound whose status
\* is active when the call executes.
C9_ScoresOnlyWhileActive ==
    \A pr \in PlayerRounds :
        \A e \in DOMAIN played[pr] :
            CopiesIn(e, played[pr]) > CopiesIn(e, before.played[pr]) =>
                /\ before.status[pr] = "active"
                /\ last.op \in {"record_score", "record_team_scores"}

C9_Witness ==
    /\ last.op = "record_score"
    /\ \E pr \in PlayerRounds :
        /\ before.played[pr] # NoEdges
        /\ \E e \in DOMAIN played[pr] : e \notin DOMAIN before.played[pr]

\* C10: after a successful activate-team-round the TeamRound has total 0,
\* average 0, rank 0, status active, and exactly one starting_hole and one
\* current_hole pointer, both to the requested hole, whatever it had before.
C10_ActivateTeamRoundResets ==
    Succeeded("activate_team_round") =>
        LET tr == TeamRoundAt(last.req[2], last.req[1])
        IN  /\ total[tr] = 0
            /\ average[tr] = Zero
            /\ rank[tr] = 0
            /\ status[tr] = "active"
            /\ starting[tr] = One(last.req[4])
            /\ current[tr] = One(last.req[4])

C10_Witness ==
    /\ Succeeded("activate_team_round")
    /\ LET tr == TeamRoundAt(last.req[2], last.req[1])
       IN  /\ before.status[tr] = "complete"
           /\ before.starting[tr] # NoEdges
           /\ before.starting[tr] # One(last.req[4])

\* C11: after a successful start-tournament(T), every TeamRound and every
\* PlayerRound of T has status ready, total 0, average 0, rank 0, no score
\* record and neither a starting_hole nor a current_hole pointer.
C11_StartTournamentClears ==
    Succeeded("start_tournament") =>
        \A r \in Rounds :
            r.tournament = last.req[1] =>
                /\ status[r] = "ready"
                /\ total[r] = 0
                /\ average[r] = Zero
                /\ rank[r] = 0
                /\ starting[r] = NoEdges
                /\ current[r] = NoEdges
                /\ r \in PlayerRounds => played[r] = NoEdges

\* C12: calling start-tournament(T) a second time directly after a successful
\* start-tournament(T) succeeds and leaves every status, aggregate, pointer and
\* score record as the first call left it.
C12_StartTournamentIdempotent ==
    Succeeded("start_tournament") =>
        LET twice == start_tournament(db, last.req[1])
        IN  twice.ok /\ twice.db = db

C12_Witness ==
    /\ Succeeded("start_tournament")
    /\ db # before
    /\ \E pr \in PlayerRounds :
        /\ pr.tournament = last.req[1]
        /\ before.played[pr] # NoEdges
        /\ before.current[pr] # NoEdges

\* The rounds of a set whose status is active or complete.
LiveOf(S) == {r \in S : status[r] \in Live}

\* The PlayerRounds linked to a TeamRound whose status is active or complete.
Contributing(tr) == LiveOf({pr \in PlayerRounds : TeamRoundOf(pr) = tr})

\* C13: after update-leaderboard, every PlayerRound whose status is active or
\* complete has total equal to the sum of the values of its score records, and
\* average times the number of its score records equal to that total.
C13_PlayerTotals ==
    Succeeded("update_leaderboard") =>
        \A pr \in LiveOf(PlayerRounds) :
            /\ total[pr] = ScoreSum(played[pr])
            /\ average[pr][1] * BagCardinality(played[pr]) = total[pr] * average[pr][2]

C13_Witness ==
    /\ Succeeded("update_leaderboard")
    /\ \E pr \in LiveOf(PlayerRounds) :
        /\ played[pr] # NoEdges
        /\ total[pr] # before.total[pr]

\* C14: after update-leaderboard, every TeamRound whose status is active or
\* complete has total equal to the sum of the totals of the PlayerRounds linked
\* to it whose status is active or complete, and average times the number of
\* those PlayerRounds equal to that total.
C14_TeamTotals ==
    Succeeded("update_leaderboard") =>
        \A tr \in LiveOf(TeamRounds) :
            /\ total[tr] = SumOver(Contributing(tr), total)
            /\ average[tr][1] * Cardinality(Contributing(tr)) = total[tr] * average[tr][2]

\* C15: after update-leaderboard, within each tournament the ranks of its
\* active or complete PlayerRounds are exactly 1..n, n their number, and a
\* strictly lower total has a lower rank, whatever the other tournament's
\* rounds are.
C15_PlayerRanksPerTournament ==
    Succeeded("update_leaderboard") =>
        \A t \in Tournaments :
            LET S == LiveOf({pr \in PlayerRounds : pr.tournament = t})
            IN  /\ {rank[pr] : pr \in S} = 1..Cardinality(S)
                /\ \A a, b \in S : total[a] < total[b] => rank[a] < rank[b]

\* C16: after update-leaderboard, of two active or complete TeamRounds of the
\* same tournament the one with the strictly lower total has the strictly
\* lower rank.
C16_TeamRanksByTotal ==
    Succeeded("update_leaderboard") =>
        \A a, b \in LiveOf(TeamRounds) :
            (a.tournament = b.tournament /\ total[a] < total[b]) => rank[a] < rank[b]

\* C17: update-leaderboard leaves total, average and rank of every round whose
\* status is ready or done as they were, and changes no status, no pointer and
\* no score record.
C17_LeaderboardFrame ==
    last.op = "update_leaderboard" =>
        /\ status = before.status
        /\ starting = before.starting
        /\ current = before.current
        /\ played = before.played
        /\ \A r \in Rounds \ LiveOf(Rounds) :
            /\ total[r] = before.total[r]
            /\ average[r] = before.average[r]
            /\ rank[r] = before.rank[r]

C17_Witness ==
    /\ Succeeded("update_leaderboard")
    /\ db # before
    /\ \E r \in Rounds : status[r] = "done"
    /\ \E r \in Rounds : status[r] = "ready"

\* A request's identifiers resolve: the graph has the round on the named
\* course, and the course has the hole.
TeamRoundResolves(q) ==
    \E tr \in TeamRounds :
        tr.tournament = q[1] /\ tr.team = q[2] /\ CourseOf(tr) = q[3] /\ q[4] \in Holes

PlayerRoundResolves(q) ==
    \E pr \in PlayerRounds :
        /\ pr.tournament = q[1] /\ pr.team = q[2] /\ pr.player = q[3]
        /\ CourseOf(pr) = q[4] /\ q[5] \in Holes

ScoreResolves(q) ==
    \E pr \in PlayerRounds :
        pr.player = q[1] /\ pr.tournament = q[2] /\ CourseOf(pr) = q[3] /\ q[4] \in Holes

\* C18: an activate-team-round, activate-player-round or record-score call
\* whose identifiers do not resolve, and a record-score call for a PlayerRound
\* whose status is not active, returns a failure and leaves every status,
\* aggregate, pointer and score record as it was: a call of these three that
\* succeeded or changed anything had identifiers that resolve and, for
\* record-score, a PlayerRound that was active.
C18_RejectedCallsWriteNothing ==
    (last.ok \/ db # before) =>
        /\ last.op = "activate_team_round" => TeamRoundResolves(last.req)
        /\ last.op = "activate_player_round" => PlayerRoundResolves(last.req)
        /\ last.op = "record_score" =>
            /\ ScoreResolves(last.req)
            /\ before.status[PlayerRoundOf(last.req[1], last.req[2])] = "active"

C18_Witness ==
    /\ last.op = "record_score"
    /\ ~last.ok
    /\ db = before
    /\ \E pr \in PlayerRounds : status[pr] = "done"
    /\ \E pr \in PlayerRounds : status[pr] = "active" /\ current[pr] # NoEdges

\* C19: a record-score call that returns a failure has created or changed no
\* score record.
C19_RecordScoreAllOrNothing ==
    (last.op = "record_score" /\ ~last.ok) => played = before.played

\* C20: a record-team-scores call that returns a failure has changed no score
\* record, no current_hole pointer and no status.
C20_RecordTeamScoresAllOrNothing ==
    (last.op = "record_team_scores" /\ ~last.ok) =>
        /\ played = before.played
        /\ current = before.current
        /\ status = before.status

\* C21: a PlayerRound that end-player-round has ended and that has not been
\* activated again (its active property is false) gets no score record
\* created or changed by a record-score, and keeps its total and average
\* across update-leaderboard.
C21_EndedRoundFrozen ==
    \A pr \in PlayerRounds :
        ~before.active[pr] =>
            /\ last.op \in {"record_score", "record_team_scores"} =>
                    played[pr] = before.played[pr]
            /\ last.op = "update_leaderboard" =>
                    total[pr] = before.total[pr] /\ average[pr] = before.average[pr]

\* C22: for a TeamRound and its PlayerRounds activated at S, the
\* record-team-scores calls with all players for the holes S, S+1, ..., 18, 1,
\* ..., S-1 in this order all succeed, and the TeamRound is active after each
\* of the first 17 and complete after the 18th.
C22_TeamCompleteOnEighteenth ==
    (play.kind = "team" /\ play.mode = "client") =>
        \A i \in 1..Len(play.oks) :
            /\ play.oks[i]
            /\ play.stats[i] = IF i = HoleCount THEN "complete" ELSE "active"

\* C25: end-tournament(T) leaves status, total, average and rank of every
\* round of another tournament as they were.
C25_EndTournamentOnlyItsRounds ==
    Succeeded("end_tournament") =>
        \A r \in Rounds :
            r.tournament # last.req[1] =>
                /\ status[r] = before.status[r]
                /\ total[r] = before.total[r]
                /\ average[r] = before.average[r]
                /\ rank[r] = before.rank[r]

\* C26: after a successful end-team-round(team, T) the TeamRound's total is
\* the sum of the score records of the PlayerRounds linked to that TeamRound.
C26_EndTeamRoundOwnRounds ==
    Succeeded("end_team_round") =>
        LET tr == TeamRoundAt(last.req[1], last.req[2])
            linked == {pr \in PlayerRounds : TeamRoundOf(pr) = tr}
        IN  total[tr] = SumOver(linked, [pr \in linked |-> ScoreSum(played[pr])])

\* C29: in a play-through of the team's round through record-team-scores
\* listing every player, all rounds activated at the same hole, after every
\* record-team-scores call the TeamRound's current_hole pointers are those of
\* each listed PlayerRound, and the TeamRound is complete only if every
\* PlayerRound is.
C29_TeamAndPlayerPointersAgree ==
    (play.kind = "team" /\ last.op = "record_team_scores") =>
        /\ \A p \in PlayMembers : current[PlayTR] = current[PlayPR(p)]
        /\ status[PlayTR] = "complete" =>
                \A p \in PlayMembers : status[PlayPR(p)] = "complete"

\* C30: activate-team-round and activate-player-round create, change and
\* delete no score record, and after re-activating a PlayerRound that has
\* score records an update-leaderboard sets its total to the sum of those
\* records.
C30_ActivationKeepsScores ==
    /\ last.op \in {"activate_team_round", "activate_player_round"} =>
            played = before.played
    /\ Succeeded("activate_player_round") =>
        LET pr == PlayerRoundOf(last.req[3], last.req[1])
        IN  before.played[pr] # NoEdges =>
                \A d \in update_leaderboard(db) :
                    d.total[pr] = ScoreSum(before.played[pr])

C30_Witness ==
    /\ Succeeded("activate_player_round")
    /\ LET pr == PlayerRoundOf(last.req[3], last.req[1])
       IN  /\ before.played[pr] # NoEdges
           /\ before.status[pr] = "active"
           /\ total[pr] = 0

\* C27: get-player-leaderboard(T) returns exactly one row for each PlayerRound
\* of T that is active or complete and has an active or complete TeamRound, and
\* the row's holes_played is the number of the round's score records.
C27_PlayerLeaderboardRows ==
    \A t \in Tournaments :
        LET rows == get_player_leaderboard(db, t)
            shown == {pr \in LiveOf(PlayerRounds) :
                        pr.tournament = t /\ status[TeamRoundOf(pr)] \in Live}
        IN  /\ Cardinality(rows) = Cardinality(shown)
            /\ \A pr \in shown :
                \E row \in rows :
                    /\ row.player_number = pr.player
                    /\ row.holes_played = BagCardinality(played[pr])

C27_Witness ==
    /\ Cardinality(get_player_leaderboard(db, PlayTournament)) > 1
    /\ \A row \in get_player_leaderboard(db, PlayTournament) : row.holes_played > 1

\* C28: for every starting_hole the list of holes play_round submits has 18
\* entries, begins at starting_hole, is a permutation of 1..18, and every entry
\* after the first is get_next_hole of the entry before it; the holes
\* submitted so far are its beginning.
C28_ClientHoleList ==
    play.mode = "client" =>
        LET l == holes_to_play(play.start)
        IN  /\ Len(l) = HoleCount
            /\ l[1] = play.start
            /\ {l[i] : i \in 1..Len(l)} = Holes
            /\ \A i \in 1..(Len(l) - 1) : l[i + 1] = get_next_hole(l[i])
            /\ play.holes = SubSeq(l, 1, Len(play.holes))

C28_Witness ==
    /\ play.mode = "client"
    /\ play.start > 1
    /\ Len(play.holes) = HoleCount
    /\ play.holes[HoleCount] = play.start - 1

\* One call of a group executed alone.
Alone(d, call) ==
    IF call.op = "activate_player_round"
    THEN activate_player_round(d, call.req[1], call.req[2], call.req[3], call.req[4],
                               call.req[5]).db
    ELSE record_score(d, call.req[1], call.req[2], call.req[3], call.req[4],
                      call.req[5]).db

\* The stores the calls of batch whose indices are in S leave when executed
\* one at a time from d, in every order.
RECURSIVE OneAtATime(_, _, _)
OneAtATime(d, batch, S) ==
    IF S = {} THEN {d}
    ELSE UNION {OneAtATime(Alone(d, batch[i]), batch, S \ {i}) : i \in S}

\* C23: when the activate-player-round and record-score calls of a group
\* issued for one PlayerRound while others were in progress have all ended,
\* the store is one that executing the same calls one at a time, in some
\* order, produces.
C23_RoundCallsLinearizable ==
    (flight.open = {} /\ ~flight.mixed /\ flight.scan = <<>>) =>
        db \in OneAtATime(flight.base, flight.batch, 1..Len(flight.batch))

\* C24: the total and the average an update-leaderboard overlapping with
\* record-score calls writes to a PlayerRound are computed from one set of
\* score records that the round had at some instant during the refresh.
C24_RefreshFromOneSet ==
    (last.op = "update_leaderboard" /\ flight.scan = <<>> /\ flight.used # NoEdges) =>
        /\ flight.used \in flight.sets
        /\ total[RacePR] = ScoreSum(flight.used)
        /\ average[RacePR] = Frac(ScoreSum(flight.used), BagCardinality(flight.used))

=============================================================================
